---- MODULE Spec2Model ----
(***************************************************************************)
(* camera_tester.cpp: MiniDriver (one capture worker thread per camera,    *)
(* started and stopped through an atomic state and an atomic interrupt     *)
(* flag) and main (starts drivers 0..3, then once the run time exceeds     *)
(* 3600 s stops one block of four drivers and starts another).             *)
(*                                                                         *)
(* The calling thread (main, or a test caller of one driver) and every     *)
(* worker thread take interleaved atomic steps.  Time is kept as ages:     *)
(* since_started and since_now are the seconds elapsed since main's        *)
(* `started` and `now` time points, saturating just above the rotation     *)
(* interval; the worker keeps the seconds since its last FPS log.          *)
(***************************************************************************)
EXTENDS Integers, FiniteSets, Sequences, TLC

\* ---------------------------------------------------------------- bounds
\* worker threads that can exist per driver at once (one is what the code uses)
MaxThreads == 2
\* device-layer failures injected over one run
MaxFailures == 1
\* depth frame numbers are drawn from 0..MaxFrameNumber
MaxFrameNumber == 2
\* frame_counter is explored up to this value
MaxFrameCounter == 3
\* "Frame number reset" log lines counted per worker run
MaxResetLogs == 2
\* longest wait_for_frames call explored, in seconds (below the 5 s timeout)
MaxWaitSeconds == 2
\* seconds by which the controller's clock advances in one step of time
TickSeconds == 2000

\* ------------------------------------------------------ program constants
\* for (int i=0; i<4; ++i) : the first block of drivers
GroupSize == 4
\* for (int i=4; i<8; ++i) : the end of the second block
FleetSize == 8
\* run_time.count() > 3600
RotationInterval == 3600
\* time_since_last_log.count() > 1
LogThrottle == 1

\* enum State
STATE_OFF == "OFF"
STATE_STARTING == "STARTING"
STATE_RUNNING == "RUNNING"
STATE_ERROR == "ERROR"
State == {STATE_OFF, STATE_STARTING, STATE_RUNNING, STATE_ERROR}

\* frames.get_depth_frame() of a frame set without a depth frame
NoDepth == -1

VARIABLES
  num_drivers,          \* drivers.size(): the number of enumerated devices
  state_,               \* state_[d]
  interrupt_requested_, \* interrupt_requested_[d]
  thread_,              \* thread_[d]: 0 = not joinable, else the worker it owns
  worker,               \* worker[d][t]: position and locals of a worker thread
  call,                 \* the start()/stop() call the calling thread is inside:
                        \*   op, its position pc, the driver d, block_until_ready, and
                        \*   what thread_.joinable() returned
  mpc,                  \* position of the calling thread outside such a call
  i,                    \* main's loop index
  toggle,               \* main's toggle
  since_started,        \* seconds since main's `started`
  since_now,            \* seconds since main's `now`
  since_completed,      \* seconds since main completed a rotation (or began, before
                        \*   the first): a clock of the model, not a program variable
  odd_rotations,        \* an odd number of rotations has been completed
  failures,             \* device-layer failures so far
  device                \* what the cameras deliver: depth frames and wait times

vars == <<num_drivers, state_, interrupt_requested_, thread_, worker, call, mpc,
          i, toggle, since_started, since_now, since_completed, odd_rotations,
          failures, device>>

Drivers == 0 .. (num_drivers - 1)
Threads == 1 .. MaxThreads

Min(a, b) == IF a < b THEN a ELSE b

\* ------------------------------------------------------------ worker data
\* float fps = frame_counter / time_since_last_log.count(): the quotient is kept as
\* the pair the log line prints, "FPS: fps (frame_counter / time_since_last_log)"
Fps(frame_counter, seconds) == [frames |-> frame_counter, seconds |-> seconds]

\* no FPS line has been logged
NoFps == Fps(0, 0)

\* a thread slot with no thread in it; fps is the last FPS line the thread has logged
NoWorker ==
  [pc |-> "none", last_frame_number |-> 0, frame_counter |-> 0,
   time_since_last_log |-> 0, fd |-> NoDepth, reset_logs |-> 0, fps |-> NoFps]

\* a thread just created on MiniDriver::run
NewWorker == [NoWorker EXCEPT !.pc = "reset"]

\* run() has returned: normally, or through one of its catch blocks
Finished == {"returned", "failed_reset", "failed_open", "failed_wait"}
FailedAt(pc) == "failed_" \o pc

\* thread t of driver d is executing run()
Alive(d, t) == worker[d][t].pc \notin (Finished \cup {"none"})
LiveWorkers(d) == {t \in Threads : Alive(d, t)}

\* threads of driver d that exist: executing, or finished and not yet joined
ExistingThreads(d) == {t \in Threads : worker[d][t].pc # "none"}

\* faulty variant: start() and stop() never see a thread to join
Joinable_Never(d) == FALSE

\* thread_.joinable()
Joinable(d) == thread_[d] # 0

\* the caller is in no call of a driver
NoCall == [op |-> "none", pc |-> "none", d |-> 0, block |-> FALSE, joinable |-> FALSE]

\* the caller enters start(block) or stop() of driver d: both begin with stop()'s test
Enter(op, d, block) ==
  [op |-> op, pc |-> "stop_check", d |-> d, block |-> block, joinable |-> FALSE]


\* ------------------------------------------------------- MiniDriver::stop
\* faulty variant: the thread is let go (detached) without waiting for run() to return
JoinDone_NoWait(d) == TRUE

\* thread_.join() returns once the thread function has returned
JoinDone(d) == worker[d][thread_[d]].pc \in Finished

\* a joined thread is gone
Reaped(w) == IF w.pc \in Finished THEN NoWorker ELSE w

\* faulty variant: the interrupt flag is raised before thread_.joinable() is tested
StopCheck_FlagFirst ==
  /\ call.pc = "stop_check"
  /\ interrupt_requested_' = [interrupt_requested_ EXCEPT ![call.d] = TRUE]
  /\ call' = [call EXCEPT !.pc = IF thread_[call.d] # 0 THEN "stop_join" ELSE "stop_ret",
                          !.joinable = thread_[call.d] # 0]
  /\ UNCHANGED <<num_drivers, state_, thread_, worker, mpc, i, toggle,
                 since_started, since_now, since_completed, odd_rotations,
                 failures, device>>

\* if (thread_.joinable()) { interrupt_requested_ = true; ...
StopCheck ==
  /\ call.pc = "stop_check"
  /\ IF Joinable(call.d)
       THEN /\ interrupt_requested_' = [interrupt_requested_ EXCEPT ![call.d] = TRUE]
            /\ call' = [call EXCEPT !.pc = "stop_join", !.joinable = TRUE]
       ELSE /\ call' = [call EXCEPT !.pc = "stop_ret"]
            /\ UNCHANGED interrupt_requested_
  /\ UNCHANGED <<num_drivers, state_, thread_, worker, mpc, i, toggle,
                 since_started, since_now, since_completed, odd_rotations,
                 failures, device>>

\* thread_.join();
StopJoin ==
  /\ call.pc = "stop_join"
  /\ JoinDone(call.d)
  /\ worker' = [worker EXCEPT ![call.d][thread_[call.d]] = Reaped(@)]
  /\ thread_' = [thread_ EXCEPT ![call.d] = 0]
  /\ call' = [call EXCEPT !.pc = "stop_clear"]
  /\ UNCHANGED <<num_drivers, state_, interrupt_requested_, mpc, i, toggle,
                 since_started, since_now, since_completed, odd_rotations,
                 failures, device>>

\* faulty variant: stop() returns after the join and leaves the flag set
StopClear_LeavesFlag ==
  /\ call.pc = "stop_clear"
  /\ call' = [call EXCEPT !.pc = "stop_ret"]
  /\ UNCHANGED <<num_drivers, state_, interrupt_requested_, thread_, worker, mpc, i,
                 toggle, since_started, since_now, since_completed, odd_rotations,
                 failures, device>>

\* interrupt_requested_ = false; }
StopClear ==
  /\ call.pc = "stop_clear"
  /\ interrupt_requested_' = [interrupt_requested_ EXCEPT ![call.d] = FALSE]
  /\ call' = [call EXCEPT !.pc = "stop_ret"]
  /\ UNCHANGED <<num_drivers, state_, thread_, worker, mpc, i, toggle,
                 since_started, since_now, since_completed, odd_rotations,
                 failures, device>>

\* the index a returning call leaves the caller's loop at (++i in main)
NextIndex == IF mpc = "harness" THEN i ELSE i + 1

\* stop() returns to its caller
StopReturn ==
  /\ call.op = "stop"
  /\ call.pc = "stop_ret"
  /\ call' = NoCall
  /\ i' = NextIndex
  /\ UNCHANGED <<num_drivers, state_, interrupt_requested_, thread_, worker, mpc,
                 toggle, since_started, since_now, since_completed, odd_rotations,
                 failures, device>>

\* ------------------------------------------------------ MiniDriver::start
\* the slot the new thread takes
FreeThread(d) == CHOOSE t \in Threads :
                   /\ worker[d][t].pc = "none"
                   /\ \A u \in Threads : worker[d][u].pc = "none" => t <= u

\* stop() has returned into start(): state_ = STATE_STARTING; thread_ = std::thread(...)
\* (move-assigning to a joinable std::thread calls std::terminate)
StartSpawn ==
  /\ call.op = "start"
  /\ call.pc = "stop_ret"
  /\ \E t \in Threads : worker[call.d][t].pc = "none"
  /\ state_' = [state_ EXCEPT ![call.d] = STATE_STARTING]
  /\ IF Joinable(call.d)
       THEN /\ mpc' = "crashed"
            /\ call' = NoCall
            /\ UNCHANGED <<thread_, worker>>
       ELSE /\ thread_' = [thread_ EXCEPT ![call.d] = FreeThread(call.d)]
            /\ worker' = [worker EXCEPT ![call.d][FreeThread(call.d)] = NewWorker]
            /\ call' = [call EXCEPT !.pc = "start_poll"]
            /\ UNCHANGED mpc
  /\ UNCHANGED <<num_drivers, interrupt_requested_, i, toggle, since_started,
                 since_now, since_completed, odd_rotations, failures, device>>

\* faulty variant: start() polls until the driver is running
StartReady_UntilRunning(d, block) == ~block \/ state_[d] = STATE_RUNNING

\* if (block_until_ready) while (state_ == STATE_STARTING) sleep_for(100ms);
StartReady(d, block) == ~block \/ state_[d] # STATE_STARTING

StartPoll ==
  /\ call.pc = "start_poll"
  /\ StartReady(call.d, call.block)
  /\ call' = [call EXCEPT !.pc = "start_ret"]
  /\ UNCHANGED <<num_drivers, state_, interrupt_requested_, thread_, worker, mpc, i,
                 toggle, since_started, since_now, since_completed, odd_rotations,
                 failures, device>>

\* start() returns to its caller
StartReturn ==
  /\ call.pc = "start_ret"
  /\ call' = NoCall
  /\ i' = NextIndex
  /\ UNCHANGED <<num_drivers, state_, interrupt_requested_, thread_, worker, mpc,
                 toggle, since_started, since_now, since_completed, odd_rotations,
                 failures, device>>

\* -------------------------------------- MiniDriver::run, reset, run_unsafe
\* the process has not been terminated
ProcessUp == mpc # "crashed"

\* faulty variant: the catch blocks of run() leave the driver OFF
CatchState_Off == STATE_OFF

\* the state the catch blocks of run() leave
CatchState == STATE_ERROR

\* reset() returns: the device was reset and has settled, or it was not found
WorkerReset(d, t) ==
  /\ ProcessUp
  /\ worker[d][t].pc = "reset"
  /\ worker' = [worker EXCEPT ![d][t].pc = "open"]
  /\ UNCHANGED <<num_drivers, state_, interrupt_requested_, thread_, call, mpc, i,
                 toggle, since_started, since_now, since_completed, odd_rotations,
                 failures, device>>

\* pipeline.start(config) succeeds: state_ = STATE_RUNNING; the loop's locals are set
WorkerOpen(d, t) ==
  /\ ProcessUp
  /\ worker[d][t].pc = "open"
  /\ state_' = [state_ EXCEPT ![d] = STATE_RUNNING]
  /\ worker' = [worker EXCEPT ![d][t] = [NoWorker EXCEPT !.pc = "check"]]
  /\ UNCHANGED <<num_drivers, interrupt_requested_, thread_, call, mpc, i, toggle,
                 since_started, since_now, since_completed, odd_rotations,
                 failures, device>>

\* faulty variant: the loop never reads the interrupt flag
LoopTest_Deaf(d) == "wait"

\* while (!interrupt_requested_): on to wait_for_frames, or out of the loop
LoopTest(d) == IF interrupt_requested_[d] THEN "close" ELSE "wait"

\* faulty variant: the worker acknowledges the interrupt by clearing the flag itself
WorkerCheck_Acknowledges(d, t) ==
  /\ ProcessUp
  /\ worker[d][t].pc = "check"
  /\ worker' = [worker EXCEPT ![d][t].pc = LoopTest(d)]
  /\ interrupt_requested_' = [interrupt_requested_ EXCEPT ![d] = FALSE]
  /\ UNCHANGED <<num_drivers, state_, thread_, call, mpc, i, toggle, since_started,
                 since_now, since_completed, odd_rotations, failures, device>>

\* the loop condition is evaluated for the first time
WorkerCheck(d, t) ==
  /\ ProcessUp
  /\ worker[d][t].pc = "check"
  /\ worker' = [worker EXCEPT ![d][t].pc = LoopTest(d)]
  /\ UNCHANGED <<num_drivers, state_, interrupt_requested_, thread_, call, mpc, i,
                 toggle, since_started, since_now, since_completed, odd_rotations,
                 failures, device>>

\* seconds since tp_last_logged at the end of the previous iteration
LogAge(w) == IF w.time_since_last_log > LogThrottle THEN 0 ELSE w.time_since_last_log

\* time_since_last_log{now - tp_last_logged} after a wait of dt seconds
Elapsed(w, dt) == Min(LogAge(w) + dt, LogThrottle + 1)

\* faulty variant: the FPS line is logged as soon as a full second has elapsed
Throttle_FullSecond(w, dt) ==
  [w EXCEPT !.time_since_last_log = Elapsed(w, dt),
            !.fps = IF Elapsed(w, dt) >= LogThrottle
                      THEN Fps(w.frame_counter, LogAge(w) + dt) ELSE @,
            !.frame_counter = IF Elapsed(w, dt) >= LogThrottle THEN 0 ELSE @]

\* if (time_since_last_log.count() > 1) { LOG FPS; frame_counter = 0; tp_last_logged = now; }
Throttle(w, dt) ==
  [w EXCEPT !.time_since_last_log = Elapsed(w, dt),
            !.fps = IF Elapsed(w, dt) > LogThrottle
                      THEN Fps(w.frame_counter, LogAge(w) + dt) ELSE @,
            !.frame_counter = IF Elapsed(w, dt) > LogThrottle THEN 0 ELSE @]

\* faulty variant: a repeated frame number is counted as a new frame
CountFrame_Repeats(counter, new_frame_number, last_frame_number) ==
  IF new_frame_number >= last_frame_number THEN counter + 1 ELSE counter

\* if (new_frame_number > last_frame_number) ++frame_counter;
CountFrame(counter, new_frame_number, last_frame_number) ==
  IF new_frame_number > last_frame_number THEN counter + 1 ELSE counter

\* else if (new_frame_number < last_frame_number) LOG "Frame number reset"
LogReset(logs, new_frame_number, last_frame_number) ==
  IF new_frame_number < last_frame_number THEN logs + 1 ELSE logs

\* faulty variant: a frame set without a depth frame is taken as a frame numbered 0
DepthFrame_MissingIsZero(w, depth) ==
  IF depth = NoDepth
    THEN [w EXCEPT !.fd = NoDepth, !.last_frame_number = 0]
    ELSE [w EXCEPT !.fd = depth,
                   !.frame_counter = CountFrame(@, depth, w.last_frame_number),
                   !.reset_logs = LogReset(@, depth, w.last_frame_number),
                   !.last_frame_number = depth]

\* fd = frames.get_depth_frame(); if (!fd) continue; ... last_frame_number = new_frame_number;
DepthFrame(w, depth) ==
  IF depth = NoDepth
    THEN [w EXCEPT !.fd = NoDepth]
    ELSE [w EXCEPT !.fd = depth,
                   !.frame_counter = CountFrame(@, depth, w.last_frame_number),
                   !.reset_logs = LogReset(@, depth, w.last_frame_number),
                   !.last_frame_number = depth]

\* the body of the sampling loop on a frame set that arrived after dt seconds
Sample(w, dt, depth) == DepthFrame(Throttle(w, dt), depth)

\* wait_for_frames(5000) returns a frame set after dt seconds, the loop body runs and
\* the loop condition is evaluated again
WorkerSample(d, t) ==
  /\ ProcessUp
  /\ worker[d][t].pc = "wait"
  /\ \E dt \in device.waits, depth \in device.depth :
       /\ Sample(worker[d][t], dt, depth).frame_counter <= MaxFrameCounter
       /\ Sample(worker[d][t], dt, depth).reset_logs <= MaxResetLogs
       /\ worker' = [worker EXCEPT ![d][t] = [Sample(@, dt, depth) EXCEPT !.pc = LoopTest(d)]]
  /\ UNCHANGED <<num_drivers, state_, interrupt_requested_, thread_, call, mpc, i,
                 toggle, since_started, since_now, since_completed, odd_rotations,
                 failures, device>>

\* faulty variant: the stream is closed and run() returns without writing state_
WorkerClose_KeepsState(d, t) ==
  /\ ProcessUp
  /\ worker[d][t].pc = "close"
  /\ worker' = [worker EXCEPT ![d][t] = [NoWorker EXCEPT !.pc = "returned"]]
  /\ UNCHANGED <<num_drivers, state_, interrupt_requested_, thread_, call, mpc, i,
                 toggle, since_started, since_now, since_completed, odd_rotations,
                 failures, device>>

\* pipeline.stop(); state_ = STATE_OFF; and run() returns
WorkerClose(d, t) ==
  /\ ProcessUp
  /\ worker[d][t].pc = "close"
  /\ state_' = [state_ EXCEPT ![d] = STATE_OFF]
  /\ worker' = [worker EXCEPT ![d][t] = [NoWorker EXCEPT !.pc = "returned"]]
  /\ UNCHANGED <<num_drivers, interrupt_requested_, thread_, call, mpc, i, toggle,
                 since_started, since_now, since_completed, odd_rotations,
                 failures, device>>

\* the calls of the device layer that can throw
Throwing == {"reset", "open", "wait"}

\* faulty variant: run() has no catch block for the exception, which ends the process
WorkerCatch_Uncaught(d, t) ==
  /\ ProcessUp
  /\ worker[d][t].pc \in Throwing
  /\ failures < MaxFailures
  /\ failures' = failures + 1
  /\ mpc' = "crashed"
  /\ UNCHANGED <<num_drivers, state_, interrupt_requested_, thread_, worker, call, i,
                 toggle, since_started, since_now, since_completed, odd_rotations, device>>

\* hardware_reset, pipeline.start or wait_for_frames throws; a catch block of run()
\* sets state_ = STATE_ERROR, logs, and run() returns
WorkerCatch(d, t) ==
  /\ ProcessUp
  /\ worker[d][t].pc \in Throwing
  /\ failures < MaxFailures
  /\ failures' = failures + 1
  /\ state_' = [state_ EXCEPT ![d] = CatchState]
  /\ worker' = [worker EXCEPT ![d][t] = [NoWorker EXCEPT !.pc = FailedAt(worker[d][t].pc)]]
  /\ UNCHANGED <<num_drivers, interrupt_requested_, thread_, call, mpc, i, toggle,
                 since_started, since_now, since_completed, odd_rotations, device>>

WorkerStep(d, t) ==
  \/ WorkerReset(d, t)
  \/ WorkerOpen(d, t)
  \/ WorkerCheck(d, t)
  \/ WorkerSample(d, t)
  \/ WorkerClose(d, t)

DriverStep ==
  \/ StopCheck
  \/ StopJoin
  \/ StopClear
  \/ StopReturn
  \/ StartSpawn
  \/ StartPoll
  \/ StartReturn

\* ------------------------------------------------ a caller of one driver
\* frames with and without a depth frame, waits of 0 .. MaxWaitSeconds seconds
AnyFrames == [depth |-> {NoDepth} \cup (0 .. MaxFrameNumber), waits |-> 0 .. MaxWaitSeconds]

InitDriver ==
  /\ num_drivers = 1
  /\ state_ = [d \in Drivers |-> STATE_OFF]
  /\ interrupt_requested_ = [d \in Drivers |-> FALSE]
  /\ thread_ = [d \in Drivers |-> 0]
  /\ worker = [d \in Drivers |-> [t \in Threads |-> NoWorker]]
  /\ call = NoCall
  /\ mpc = "harness"
  /\ i = 0
  /\ toggle = TRUE
  /\ since_started = 0
  /\ since_now = 0
  /\ since_completed = 0
  /\ odd_rotations = FALSE
  /\ failures = 0
  /\ device = AnyFrames

\* the caller calls start(block_until_ready) on the driver
CallStart ==
  /\ mpc = "harness"
  /\ call = NoCall
  /\ \E d \in Drivers, block \in BOOLEAN : call' = Enter("start", d, block)
  /\ UNCHANGED <<num_drivers, state_, interrupt_requested_, thread_, worker, mpc, i,
                 toggle, since_started, since_now, since_completed, odd_rotations,
                 failures, device>>

\* the caller calls stop() on the driver
CallStop ==
  /\ mpc = "harness"
  /\ call = NoCall
  /\ \E d \in Drivers : call' = Enter("stop", d, FALSE)
  /\ UNCHANGED <<num_drivers, state_, interrupt_requested_, thread_, worker, mpc, i,
                 toggle, since_started, since_now, since_completed, odd_rotations,
                 failures, device>>

NextDriver ==
  \/ CallStart
  \/ CallStop
  \/ DriverStep
  \/ \E d \in Drivers, t \in Threads : WorkerStep(d, t) \/ WorkerCatch(d, t)

SpecDriver == InitDriver /\ [][NextDriver]_vars

\* ------------------------------------------------------------------ main
\* the for loops of main: "init" (line 223), "stop" and "start" (lines 234-255)
Loops == {"init", "stop", "start"}

\* faulty variant: the rotation stops the block it is about to start
LoopFirst_SameBlock(loop) ==
  IF loop = "init" THEN 0 ELSE (IF toggle THEN GroupSize ELSE 0)

\* the first index of a loop
LoopFirst(loop) ==
  IF loop = "init" THEN 0
  ELSE IF loop = "stop" THEN (IF toggle THEN 0 ELSE GroupSize)
  ELSE (IF toggle THEN GroupSize ELSE 0)

\* the bound of a loop: i<4 for the loops from 0, i<8 for the loops from 4
LoopEnd(loop) == IF LoopFirst(loop) = 0 THEN GroupSize ELSE FleetSize

\* drivers[k] is an element of the vector
InRange(k) == k < num_drivers

\* the age of a time point after dt more seconds; ages above the rotation interval
\* are all alike to main
Later(age, dt) == Min(age + dt, RotationInterval + 1)

\* faulty variant: main starts its drivers without blocking until they are ready
MainCall_NoBlock ==
  /\ mpc \in Loops
  /\ call = NoCall
  /\ i < LoopEnd(mpc)
  /\ InRange(i)
  /\ call' = Enter(IF mpc = "stop" THEN "stop" ELSE "start", i, FALSE)
  /\ UNCHANGED <<num_drivers, state_, interrupt_requested_, thread_, worker, mpc, i,
                 toggle, since_started, since_now, since_completed, odd_rotations,
                 failures, device>>

\* drivers[i]->start() in the "init" and "start" loops, drivers[i]->stop() in "stop"
MainCall ==
  /\ mpc \in Loops
  /\ call = NoCall
  /\ i < LoopEnd(mpc)
  /\ InRange(i)
  /\ call' = Enter(IF mpc = "stop" THEN "stop" ELSE "start", i, TRUE)
  /\ UNCHANGED <<num_drivers, state_, interrupt_requested_, thread_, worker, mpc, i,
                 toggle, since_started, since_now, since_completed, odd_rotations,
                 failures, device>>

\* drivers[i] with i >= drivers.size(): undefined behaviour.  The process is killed,
\* or the call works on memory that is no driver and the loop goes on.
MainOutOfRange ==
  /\ mpc \in Loops
  /\ call = NoCall
  /\ i < LoopEnd(mpc)
  /\ ~InRange(i)
  /\ \E killed \in BOOLEAN :
       /\ mpc' = IF killed THEN "crashed" ELSE mpc
       /\ i' = IF killed THEN i ELSE i + 1
  /\ UNCHANGED <<num_drivers, state_, interrupt_requested_, thread_, worker, call,
                 toggle, since_started, since_now, since_completed, odd_rotations,
                 failures, device>>

\* a for loop of main ends
MainLoopEnd ==
  /\ mpc \in Loops
  /\ call = NoCall
  /\ i >= LoopEnd(mpc)
  /\ mpc' = IF mpc = "init" THEN "loop" ELSE IF mpc = "stop" THEN "start" ELSE "post"
  /\ i' = IF mpc = "stop" THEN LoopFirst("start") ELSE i
  /\ UNCHANGED <<num_drivers, state_, interrupt_requested_, thread_, worker, call,
                 toggle, since_started, since_now, since_completed, odd_rotations,
                 failures, device>>

\* faulty variant: the rotation block is entered on every pass of the loop
RotationDue_Always == TRUE

\* now = Clock::now(); run_time{now - started}; if (run_time.count() > 3600)
RotationDue == since_started > RotationInterval

MainCheck ==
  /\ mpc = "loop"
  /\ since_now' = 0
  /\ mpc' = IF RotationDue THEN "stop" ELSE "sleep"
  /\ i' = IF RotationDue THEN LoopFirst("stop") ELSE i
  /\ UNCHANGED <<num_drivers, state_, interrupt_requested_, thread_, worker, call,
                 toggle, since_started, since_completed, odd_rotations, failures,
                 device>>

\* toggle != toggle;  (a comparison whose value is dropped)
Toggled(b) == b

\* toggle != toggle; started = now;
MainPost ==
  /\ mpc = "post"
  /\ toggle' = Toggled(toggle)
  /\ since_started' = since_now
  /\ since_completed' = 0
  /\ odd_rotations' = ~odd_rotations
  /\ mpc' = "sleep"
  /\ UNCHANGED <<num_drivers, state_, interrupt_requested_, thread_, worker, call, i,
                 since_now, failures, device>>

\* std::this_thread::sleep_for(std::chrono::seconds(1)): at least a second passes
MainSleep ==
  /\ mpc = "sleep"
  /\ since_started' = Later(since_started, TickSeconds)
  /\ since_now' = Later(since_now, TickSeconds)
  /\ since_completed' = Later(since_completed, TickSeconds)
  /\ mpc' = "loop"
  /\ UNCHANGED <<num_drivers, state_, interrupt_requested_, thread_, worker, call, i,
                 toggle, odd_rotations, failures, device>>

\* time passes while main is blocked in thread_.join() or in start()'s polling sleep
Tick ==
  /\ ProcessUp
  /\ call.pc \in {"stop_join", "start_poll"}
  /\ since_started <= RotationInterval \/ since_now <= RotationInterval
  /\ since_started' = Later(since_started, TickSeconds)
  /\ since_now' = Later(since_now, TickSeconds)
  /\ since_completed' = Later(since_completed, TickSeconds)
  /\ UNCHANGED <<num_drivers, state_, interrupt_requested_, thread_, worker, call, mpc,
                 i, toggle, odd_rotations, failures, device>>

MainStep ==
  \/ MainCall
  \/ MainLoopEnd
  \/ MainCheck
  \/ MainPost
  \/ MainSleep

\* the numbers of enumerated devices explored
DeviceCounts == {GroupSize, FleetSize}

\* frame sets without a depth frame, each after a wait above the log throttle
PlainFrames == [depth |-> {NoDepth}, waits |-> {LogThrottle + 1}]

\* main before its first loop: drivers constructed OFF, toggle = true, started = now
Init ==
  /\ num_drivers \in DeviceCounts
  /\ state_ = [d \in Drivers |-> STATE_OFF]
  /\ interrupt_requested_ = [d \in Drivers |-> FALSE]
  /\ thread_ = [d \in Drivers |-> 0]
  /\ worker = [d \in Drivers |-> [t \in Threads |-> NoWorker]]
  /\ call = NoCall
  /\ mpc = "init"
  /\ i = 0
  /\ toggle = TRUE
  /\ since_started = 0
  /\ since_now = 0
  /\ since_completed = 0
  /\ odd_rotations = FALSE
  /\ failures = 0
  /\ device = PlainFrames

Workers == \E d \in Drivers, t \in Threads : WorkerStep(d, t) \/ WorkerCatch(d, t)

Next ==
  \/ MainStep
  \/ MainOutOfRange
  \/ Tick
  \/ DriverStep
  \/ Workers

Spec == Init /\ [][Next]_vars

\* all eight cameras are enumerated; the main thread and every worker keep running
InitFleet == Init /\ num_drivers = FleetSize

NextFleet ==
  \/ MainStep
  \/ Tick
  \/ DriverStep
  \/ Workers

\* the main thread is scheduled whenever it can run, and so is each driver's worker
\* as long as the device layer returns (a device failure is never forced)
Fairness ==
  /\ WF_vars(MainStep \/ DriverStep)
  /\ \A d \in 0 .. (FleetSize - 1) : WF_vars(\E t \in Threads : WorkerStep(d, t))

FairSpec == InitFleet /\ [][NextFleet]_vars /\ Fairness

\* the caller of one driver finishes every call it is in; every worker keeps running
FairDriver ==
  /\ InitDriver
  /\ [][NextDriver]_vars
  /\ WF_vars(DriverStep)
  /\ WF_vars(\E t \in Threads : WorkerStep(0, t))

\* =========================================================== properties
\* stop() is at its return (as a call of its own, or as the first statement of start())
StopReturning == call.pc = "stop_ret"

C2_OneWorker ==
  \A d \in Drivers :
    /\ Cardinality(ExistingThreads(d)) <= 1
    /\ ExistingThreads(d) = IF Joinable(d) THEN {thread_[d]} ELSE {}

\* start() called on a driver whose worker of an earlier start() was still running:
\* that worker has been joined and the new one is created and alive
C2_Witness ==
  /\ call.op = "start"
  /\ call.pc = "start_poll"
  /\ call.joinable
  /\ Cardinality(LiveWorkers(call.d)) = 1

\* the driver fields a stop() on an idle driver must leave alone
DriverFields(d) == <<state_[d], interrupt_requested_[d], thread_[d], worker[d]>>

\* a step of stop()'s test on a driver that is OFF or whose thread_ is not joinable
\* (as stop() leaves it) goes straight to the return and changes no field
StopIsNoOp ==
  (/\ call.op = "stop"
   /\ call.pc = "stop_check"
   /\ call' # call
   /\ state_[call.d] = STATE_OFF \/ ~Joinable(call.d))
  => /\ call'.pc = "stop_ret"
     /\ ~call'.joinable
     /\ DriverFields(call.d)' = DriverFields(call.d)

\* the return of stop() changes no field of the driver
StopReturnKeeps ==
  (call.op = "stop" /\ call.pc = "stop_ret" /\ call' # call)
  => DriverFields(call.d)' = DriverFields(call.d)

\* C9: stop() on a driver that is OFF (never started, or stopped) changes neither
\* state_, nor interrupt_requested_, nor thread_; every stop() returns with thread_ not
\* joinable and the flag clear, so a second stop() in a row finds nothing to join and
\* leaves the driver as the first did.
C9_StopIdempotent ==
  /\ [](StopReturning => ~Joinable(call.d) /\ ~interrupt_requested_[call.d])
  /\ [][StopIsNoOp /\ StopReturnKeeps]_vars

\* a stop() that found nothing to join returns on a driver that is OFF
C9_Witness ==
  /\ StopReturning
  /\ call.op = "stop"
  /\ ~call.joinable
  /\ state_[call.d] = STATE_OFF

\* the worker of the driver under a blocking start() threw in pipeline.start()
OpenFailed(d) == Joinable(d) /\ worker[d][thread_[d]].pc = "failed_open"

\* C6: when opening the stream fails while start(block_until_ready = true) waits,
\* start() gets to its return, and the state is ERROR there.
C6_OpenFailureEndsStart ==
  (call.op = "start" /\ call.block /\ call.pc = "start_poll" /\ OpenFailed(call.d))
    ~> (call.op = "start" /\ call.pc = "start_ret" /\ state_[call.d] = STATE_ERROR)

\* a blocking start() at its return after the open failure of its worker
C6_Witness ==
  /\ call.op = "start"
  /\ call.block
  /\ call.pc = "start_ret"
  /\ OpenFailed(call.d)
  /\ state_[call.d] = STATE_ERROR

\* frame_counter after the throttle block of the iteration that took w to v
AfterThrottle(w, v) ==
  IF v.time_since_last_log > LogThrottle THEN 0 ELSE w.frame_counter

\* an iteration of the sampling loop takes the locals w to v
SampledRight(w, v) ==
  /\ (v.fd # NoDepth /\ v.fd > w.last_frame_number)
       => v.frame_counter = AfterThrottle(w, v) + 1
  /\ (v.fd # NoDepth /\ v.fd <= w.last_frame_number)
       => v.frame_counter = AfterThrottle(w, v)
  /\ (v.fd # NoDepth /\ v.fd < w.last_frame_number)
       => v.reset_logs = w.reset_logs + 1
  /\ (v.fd # NoDepth /\ v.fd >= w.last_frame_number)
       => v.reset_logs = w.reset_logs
  /\ v.fd # NoDepth => v.last_frame_number = v.fd

\* thread t of driver d gets a frame set and runs the loop body: its locals change
\* and it is at the loop again, or leaving it
SampleStep(d, t) ==
  /\ worker[d][t].pc = "wait"
  /\ worker'[d][t] # worker[d][t]
  /\ worker'[d][t].pc \in {"wait", "close"}

\* C10: in every iteration of the sampling loop with a depth frame, a frame number
\* above last_frame_number increments frame_counter (as the throttle block left it) by
\* exactly one, an equal or smaller number does not increment it, a smaller number
\* logs exactly one frame number reset, and last_frame_number becomes the number
\* seen; the loop is entered with last_frame_number = 0 and frame_counter = 0.
C10_FrameNumberPolicy ==
  /\ [](\A d \in Drivers, t \in Threads :
          worker[d][t].pc = "check" => /\ worker[d][t].last_frame_number = 0
                                       /\ worker[d][t].frame_counter = 0)
  /\ [][\A d \in Drivers, t \in Threads :
          SampleStep(d, t) => SampledRight(worker[d][t], worker'[d][t])]_vars

\* a worker has counted frames, has seen the number fall and logged it, and has just
\* seen a number repeat
C10_Witness ==
  \E d \in Drivers, t \in Threads :
    /\ worker[d][t].frame_counter >= 2
    /\ worker[d][t].reset_logs >= 1
    /\ worker[d][t].fd = 0
    /\ worker[d][t].last_frame_number = 0

\* the two blocks of drivers main's loops run over: drivers[0..4) and drivers[4..8)
GroupA == {d \in Drivers : d < GroupSize}
GroupB == {d \in Drivers : d >= GroupSize}

Active(d) == state_[d] \in {STATE_STARTING, STATE_RUNNING}

\* main is between rotations: in its loop, outside the if block
Settled == mpc \in {"loop", "sleep"}

\* C3 (as stated): with all eight cameras enumerated and no device failure, between
\* rotations group A is OFF and group B active after an odd number of rotations, and
\* group B is OFF and group A active after an even number.
C3_GroupsAlternate ==
  (num_drivers = FleetSize /\ Settled /\ failures = 0)
    => IF odd_rotations
         THEN /\ \A d \in GroupA : state_[d] = STATE_OFF
              /\ \A d \in GroupB : Active(d)
         ELSE /\ \A d \in GroupB : state_[d] = STATE_OFF
              /\ \A d \in GroupA : Active(d)

Idle(d) == state_[d] \in {STATE_OFF, STATE_ERROR} /\ LiveWorkers(d) = {}

FirstHalf == {d \in Drivers : 2 * d < num_drivers}

\* main has finished its first loop and no rotation has begun
InitialStartDone == mpc = "init" /\ call = NoCall /\ i >= LoopEnd("init")

\* main is about to index drivers[] past its end
OutOfRangeAccess == mpc \in Loops /\ call = NoCall /\ i < LoopEnd(mpc) /\ ~InRange(i)

\* C5 (as stated): main never indexes drivers[] outside 0..N-1, and with no device
\* failure the initial start leaves exactly the first half of the device list RUNNING
\* and the second half OFF.
C5_HalvesOfDeviceList ==
  /\ ~OutOfRangeAccess
  /\ (InitialStartDone /\ failures = 0)
       => \A d \in Drivers :
            state_[d] = IF d \in FirstHalf THEN STATE_RUNNING ELSE STATE_OFF

\* a worker of driver d throws in this step
Throws(d, t) == worker[d][t].pc \in Throwing /\ worker'[d][t].pc = FailedAt(worker[d][t].pc)

\* the failure of a worker of driver d sets only that driver's state, to ERROR, ends
\* the worker, and leaves the main thread where it is
FailureContained ==
  \A d \in Drivers, t \in Threads :
    Throws(d, t) => /\ state_'[d] = STATE_ERROR
                    /\ ~Alive(d, t)'
                    /\ \A e \in Drivers \ {d} : state_'[e] = state_[e]
                    /\ <<mpc, call, i>>' = <<mpc, call, i>>
                    /\ ProcessUp'

\* C7: a device-layer failure in reset, open or wait sets the driver's state to ERROR
\* and ends its worker, changes no other driver's state and does not disturb the
\* main thread, which goes on to complete rotations again and again.
C7_FailureContained ==
  /\ [][FailureContained]_vars
  /\ []<>(mpc = "post")

\* a rotation completes while a driver is in ERROR
C7_Witness ==
  /\ mpc = "post"
  /\ failures > 0
  /\ \E d \in Drivers : state_[d] = STATE_ERROR

\* C8 (as stated): whenever a driver is in ERROR it is later STARTING again: no
\* driver stays in ERROR for ever, and ERROR is left only into STARTING.
C8_ErrorIsCycled ==
  /\ \A d \in 0 .. (FleetSize - 1) : []<>(state_[d] # STATE_ERROR)
  /\ [][\A d \in Drivers :
          (state_[d] = STATE_ERROR /\ state_'[d] # STATE_ERROR)
            => state_'[d] = STATE_STARTING]_vars

\* the changes of state_ the lifecycle allows, other than those to OFF
Lifecycle ==
  {<<STATE_OFF, STATE_STARTING>>, <<STATE_ERROR, STATE_STARTING>>,
   <<STATE_STARTING, STATE_RUNNING>>, <<STATE_STARTING, STATE_ERROR>>,
   <<STATE_RUNNING, STATE_ERROR>>}

\* the caller is inside stop() on driver d (called directly or as the first statement
\* of start()) and has requested the interrupt
StopInProgress(d) == call.d = d /\ call.pc \in {"stop_join", "stop_clear"}

\* the caller is inside start() on driver d, past its stop()
Starting(d) == call.op = "start" /\ call.d = d /\ call.pc = "stop_ret"

\* one change of the state of driver d
StateChange(d) ==
  state_'[d] # state_[d] =>
    /\ state_'[d] # STATE_OFF => <<state_[d], state_'[d]>> \in Lifecycle
    /\ state_'[d] = STATE_STARTING => Starting(d)
    /\ state_'[d] = STATE_OFF => StopInProgress(d)

\* C11: every change of a driver's state is OFF->STARTING or ERROR->STARTING (made by
\* start()), STARTING->RUNNING, STARTING->ERROR, RUNNING->ERROR, or a change to OFF;
\* and a change to OFF is made only while a stop() of that driver is in progress.
C11_Lifecycle == [][\A d \in Drivers : StateChange(d)]_vars

\* a stop() has interrupted a RUNNING worker, which closed the stream, set OFF and
\* returned, and stop() is about to join it
C11_Witness ==
  /\ call.pc = "stop_join"
  /\ state_[call.d] = STATE_OFF
  /\ Joinable(call.d)
  /\ worker[call.d][thread_[call.d]].pc = "returned"

\* main is inside a start(true) or stop() call and has not reached its return
InCall == call.op # "none" /\ call.pc # call.op \o "_ret"

\* the call main is in is at its return
AtReturn == call.op # "none" /\ call.pc = call.op \o "_ret"

\* C12: with every worker scheduled and every device call returning or failing, every
\* start(true) and every stop() main issues reaches its return, whatever its driver's
\* worker is doing (main is never inside a call for ever), and main completes
\* rotations again and again.
C12_CallsReturn ==
  /\ []<>(~InCall)
  /\ []<>(mpc = "start" /\ AtReturn)

\* a stop() of a rotation returns after it interrupted and joined a sampling worker
C12_Witness ==
  /\ mpc = "stop"
  /\ call.op = "stop"
  /\ call.pc = "stop_ret"
  /\ call.joinable
  /\ state_[call.d] = STATE_OFF

\* thread t of driver d is at the sampling loop: at its first test, or past a test
\* that let it in (its wait-for-frameset call begun or about to begin)
AtLoop(d, t) == worker[d][t].pc \in {"check", "wait"}

\* a step of a worker at the loop whose flag is set: the wait it was let in for is its
\* last, the next test takes it out of the loop (or the wait threw)
LastWait(d, t) ==
  (AtLoop(d, t) /\ interrupt_requested_[d] /\ worker'[d][t] # worker[d][t])
    => worker'[d][t].pc \in {"close", "failed_wait"}

\* the step out of the loop's exit: the stream is closed, the state is OFF, run() returns
ClosesThenOff(d, t) ==
  (worker[d][t].pc = "close" /\ worker'[d][t] # worker[d][t])
    => /\ worker'[d][t].pc = "returned"
       /\ state_[d] = STATE_RUNNING
       /\ state_'[d] = STATE_OFF

\* C13: once the interrupt flag is set while a worker is at the sampling loop, the
\* worker completes at most one wait-for-frameset call, then leaves the loop; the loop
\* is left normally only with the flag set, with the state still RUNNING, and the
\* worker then closes the stream and sets the state to OFF.
C13_CooperativeCancel ==
  /\ [](\A d \in Drivers, t \in Threads :
          worker[d][t].pc = "close" => interrupt_requested_[d] /\ state_[d] = STATE_RUNNING)
  /\ [][\A d \in Drivers, t \in Threads : LastWait(d, t) /\ ClosesThenOff(d, t)]_vars

\* a worker that was sampling depth frames has seen the interrupt and is leaving the loop
C13_Witness ==
  \E d \in Drivers, t \in Threads :
    /\ worker[d][t].pc = "close"
    /\ worker[d][t].fd # NoDepth
    /\ interrupt_requested_[d]
    /\ call.pc = "stop_join"

\* main issues the first start() of a rotation
FirstStartOfRotation ==
  mpc = "start" /\ i = LoopFirst("start") /\ call.op = "start" /\ call.pc = "stop_check"

\* C14 (as stated): with all eight cameras enumerated, when the first start() of a
\* rotation is issued every driver of the group that was active before the rotation has
\* been stopped, so no driver has a live worker; and every call of main's loops is
\* made on drivers[i], with i going up through the block.
C14_StoppedBeforeStarts ==
  /\ (num_drivers = FleetSize /\ FirstStartOfRotation)
       => \A d \in Drivers : LiveWorkers(d) = {}
  /\ (mpc \in Loops /\ call.op # "none")
       => call.d = i /\ LoopFirst(mpc) <= i /\ i < LoopEnd(mpc)

\* the drivers in state STARTING
StartingDrivers == {d \in Drivers : state_[d] = STATE_STARTING}

\* C15: main starts its drivers one after the other with blocking start(): a driver is
\* STARTING only while main is inside start() on that driver, so no driver is STARTING
\* when the next start() is issued, and at most one driver of the fleet is STARTING.
C15_OneStarting ==
  /\ Cardinality(StartingDrivers) <= 1
  /\ \A d \in StartingDrivers : call.op = "start" /\ call.d = d /\ call.pc = "start_poll"

\* main waits in start() for a driver that is STARTING while the drivers it started
\* before are RUNNING
C15_Witness ==
  /\ call.op = "start"
  /\ call.pc = "start_poll"
  /\ state_[call.d] = STATE_STARTING
  /\ call.d > 0
  /\ \A d \in Drivers : d < call.d => state_[d] = STATE_RUNNING

\* main is inside the rotation block of its loop
InRotation == mpc \in {"stop", "start", "post"}

\* main has just entered the rotation block
RotationBegins == mpc = "stop" /\ i = LoopFirst("stop") /\ call = NoCall

\* a rotation is performed only when more than the rotation interval has elapsed since
\* `started`
RotatesWhenDue == InRotation => since_started > RotationInterval

\* C16 (as stated): a rotation is performed only when more than the rotation interval
\* has elapsed since the timer was reset, and when a rotation begins at least the
\* rotation interval has elapsed since the previous rotation completed.
C16_IntervalAfterCompletion ==
  /\ RotatesWhenDue
  /\ RotationBegins => since_completed >= RotationInterval

\* the end of the rotation block sets the timer to `now`, the clock reading that
\* began the rotation
TimerSetToNow == (mpc = "post" /\ mpc' # "post") => since_started' = since_now

\* C16 (amended): a rotation is performed only when more than the rotation interval
\* has elapsed since `started`; every rotation sets `started` to the clock reading that
\* began it, a time not after its completion, so more than the interval elapses from
\* the beginning of one rotation to the beginning of the next; after the completion of
\* a rotation the next one begins no sooner than after the sleep of the loop.
C16_IntervalBetweenBeginnings ==
  /\ [](RotatesWhenDue)
  /\ [](since_completed <= since_started)
  /\ [](RotationBegins => since_completed >= Min(TickSeconds, RotationInterval))
  /\ [][TimerSetToNow]_vars

\* a rotation begins less than the rotation interval after the previous one completed
C16_Witness ==
  /\ RotationBegins
  /\ odd_rotations
  /\ since_completed < RotationInterval

\* thread t of driver d runs an iteration on a frame set without a depth frame
NoDepthStep(d, t) == SampleStep(d, t) /\ worker'[d][t].fd = NoDepth

\* C17 (as stated): an iteration of the sampling loop on a frame set without a depth
\* frame leaves frame_counter and last_frame_number as they were.
C17_NoDepthKeepsCounters ==
  [][\A d \in Drivers, t \in Threads :
       NoDepthStep(d, t)
         => /\ worker'[d][t].frame_counter = worker[d][t].frame_counter
            /\ worker'[d][t].last_frame_number = worker[d][t].last_frame_number]_vars

\* C17 (amended): an iteration on a frame set without a depth frame leaves
\* last_frame_number as it was, logs no frame number reset, and leaves frame_counter
\* as the throttle block of that iteration left it: unchanged, or 0 when more than a
\* second had elapsed since the last FPS log.
C17_NoDepthSkipsComparison ==
  [][\A d \in Drivers, t \in Threads :
       NoDepthStep(d, t)
         => /\ worker'[d][t].last_frame_number = worker[d][t].last_frame_number
            /\ worker'[d][t].reset_logs = worker[d][t].reset_logs
            /\ worker'[d][t].frame_counter = AfterThrottle(worker[d][t], worker'[d][t])]_vars

\* a worker that had seen depth frames got a frame set without one in an iteration
\* in which the FPS log fired: frame_counter is 0, last_frame_number is kept
C17_Witness ==
  \E d \in Drivers, t \in Threads :
    /\ worker[d][t].pc \in {"wait", "close"}
    /\ worker[d][t].fd = NoDepth
    /\ worker[d][t].time_since_last_log > LogThrottle
    /\ worker[d][t].frame_counter = 0
    /\ worker[d][t].last_frame_number > 0

\* the iteration that took the locals w to v logged an FPS line
LogFired(w, v) == v.time_since_last_log > LogThrottle

\* the iteration that took w to v found exactly one second elapsed since the last log
FullSecond(w, v) == v.time_since_last_log = LogThrottle

\* the log line reports the rate n
Rate(fps, n) == fps.seconds > 0 /\ fps.frames = n * fps.seconds

\* the FPS log of one iteration: it fires only when more than a second has elapsed,
\* reports the frames counted since the last log, and resets the counter and the timer
Windowed(w, v) ==
  /\ LogFired(w, v)
       => /\ v.fps.frames = w.frame_counter
          /\ v.fps.seconds > LogThrottle
          /\ v.fps.seconds >= LogAge(w)
          /\ AfterThrottle(w, v) = 0
          /\ LogAge(v) = 0
  /\ ~LogFired(w, v)
       => /\ v.fps = w.fps
          /\ AfterThrottle(w, v) = w.frame_counter
          /\ LogAge(v) >= LogAge(w)
  /\ v.frame_counter \in {AfterThrottle(w, v), AfterThrottle(w, v) + 1}
  /\ v.frame_counter = AfterThrottle(w, v) + 1
       <=> (v.fd # NoDepth /\ v.fd > w.last_frame_number)

CallerStep == call' # call

\* the step is taken by a worker thread of driver d, which exists before and after it
WorkerThreadStep(d) ==
  /\ call' = call
  /\ \E t \in Threads : Alive(d, t) /\ worker'[d][t] # worker[d][t]

\* the writers of the two shared fields of driver d in one step
SingleWriter(d) ==
  /\ (state_'[d] # state_[d] /\ CallerStep)
       => /\ state_'[d] = STATE_STARTING
          /\ ExistingThreads(d) = {}
  /\ (state_'[d] # state_[d] /\ LiveWorkers(d) # {}) => WorkerThreadStep(d)
  /\ interrupt_requested_'[d] # interrupt_requested_[d]
       => CallerStep /\ worker' = worker

\* C19: the calling thread and the worker never write a driver's state concurrently:
\* the caller writes it only in start(), STARTING, when no thread of the driver exists
\* (after the join, before the spawn); while a worker is alive every change of the
\* state is a step of that worker; interrupt_requested_ changes only in steps of the
\* calling thread.
C19_SingleWriter == [][\A d \in Drivers : SingleWriter(d)]_vars

\* start() has joined the worker of an earlier start() and is about to write STARTING
C19_Witness ==
  /\ call.op = "start"
  /\ call.pc = "stop_ret"
  /\ call.joinable
  /\ ExistingThreads(call.d) = {}
  /\ state_[call.d] = STATE_OFF

\* a thread of driver d is created in this step
Spawned(d) == \E t \in Threads : worker[d][t].pc = "none" /\ worker'[d][t].pc # "none"

\* C20: interrupt_requested_ is true only while a stop() of that driver is between
\* setting and clearing it; it is false in every step that spawns a worker; and a
\* worker leaves the sampling loop only while the stop() that is joining it is in
\* progress, never on a flag left over from an earlier stop().
C20_InterruptOnlyInStop ==
  /\ [](\A d \in Drivers : interrupt_requested_[d] => StopInProgress(d) /\ call.joinable)
  /\ [](\A d \in Drivers, t \in Threads :
          worker[d][t].pc = "close" => thread_[d] = t /\ call.d = d /\ call.pc = "stop_join")
  /\ [][\A d \in Drivers :
          Spawned(d) => ~interrupt_requested_[d] /\ ~interrupt_requested_'[d]]_vars

\* a worker spawned by a start() that had to stop an earlier worker is sampling, the
\* flag clear
C20_Witness ==
  /\ call.op = "start"
  /\ call.pc \in {"start_poll", "start_ret"}
  /\ call.joinable
  /\ ~interrupt_requested_[call.d]
  /\ Joinable(call.d)
  /\ worker[call.d][thread_[call.d]].pc = "wait"

====
